---- MODULE Spec2Model ----
(***************************************************************************)
(* Model of the concept lattice and symlink reconciliation of hdm.py.      *)
(*                                                                         *)
(* Strings are sequences of character codes (ASCII), so that case          *)
(* conversion, sorting and concatenation are computed as Python computes   *)
(* them.  A path below the symlink directory is a sequence of names.       *)
(***************************************************************************)
EXTENDS Integers, Sequences, FiniteSets, TLC

(***************************************************************************)
(* Bounds of the model                                                     *)
(***************************************************************************)
\* largest number of memory files in the directory at one time
MaxPages == 3
\* number of times the symlink command is run
MaxRuns == 2
\* recursion limit of recurse_concepts (Python's is 1000)
MaxStack == 4

(***************************************************************************)
(* Characters and Python string methods                                    *)
(***************************************************************************)
Whitespace == {32, 9, 10, 13}

IsLower(c) == c >= 97 /\ c <= 122
IsUpper(c) == c >= 65 /\ c <= 90
\* str.upper / str.lower on one ASCII character
Upper(c) == IF IsLower(c) THEN c - 32 ELSE c
Lower(c) == IF IsUpper(c) THEN c + 32 ELSE c

\* str.lower()
StrLower(s) == [i \in 1..Len(s) |-> Lower(s[i])]

\* str.capitalize(): first character upper-cased, the rest lower-cased
Capitalize(s) == [i \in 1..Len(s) |-> IF i = 1 THEN Upper(s[i]) ELSE Lower(s[i])]

\* s < t for Python strings: lexicographic by code point
RECURSIVE StrLess(_, _)
StrLess(s, t) ==
    IF t = <<>> THEN FALSE
    ELSE IF s = <<>> THEN TRUE
    ELSE IF s[1] # t[1] THEN s[1] < t[1]
    ELSE StrLess(Tail(s), Tail(t))

\* insert x in the sorted list l, after the elements not greater than it
RECURSIVE SortedInsert(_, _)
SortedInsert(x, l) ==
    IF l = <<>> THEN <<x>>
    ELSE IF StrLess(x, l[1]) THEN <<x>> \o l
    ELSE <<l[1]>> \o SortedInsert(x, Tail(l))

\* list.sort() of a list of strings
RECURSIVE SortStrings(_)
SortStrings(l) ==
    IF l = <<>> THEN <<>>
    ELSE SortedInsert(l[Len(l)], SortStrings(SubSeq(l, 1, Len(l) - 1)))

\* ''.join(l)
RECURSIVE Join(_)
Join(l) == IF l = <<>> THEN <<>> ELSE l[1] \o Join(Tail(l))

\* str.replace(c, '')
RECURSIVE RemoveChar(_, _)
RemoveChar(s, c) ==
    IF s = <<>> THEN <<>>
    ELSE IF s[1] = c THEN RemoveChar(Tail(s), c)
    ELSE <<s[1]>> \o RemoveChar(Tail(s), c)

\* str.lstrip(chars) / str.rstrip() for a set of characters
RECURSIVE LStrip(_, _)
LStrip(s, cs) ==
    IF s # <<>> /\ s[1] \in cs THEN LStrip(Tail(s), cs) ELSE s

RECURSIVE RStrip(_, _)
RStrip(s, cs) ==
    IF s # <<>> /\ s[Len(s)] \in cs THEN RStrip(SubSeq(s, 1, Len(s) - 1), cs) ELSE s

\* str.split(): the maximal runs of non-whitespace characters
RECURSIVE SplitFrom(_, _, _)
SplitFrom(s, i, word) ==
    IF i > Len(s) THEN (IF word = <<>> THEN <<>> ELSE <<word>>)
    ELSE IF s[i] \in Whitespace
         THEN (IF word = <<>> THEN <<>> ELSE <<word>>) \o SplitFrom(s, i + 1, <<>>)
         ELSE SplitFrom(s, i + 1, Append(word, s[i]))

Split(s) == SplitFrom(s, 1, <<>>)

\* set(l) of a list
SetOf(l) == {l[i] : i \in 1..Len(l)}

\* itertools.combinations(l, k): the k-element subsequences, in index order
RECURSIVE Combinations(_, _)
Combinations(l, k) ==
    IF k = 0 THEN << <<>> >>
    ELSE IF Len(l) < k THEN <<>>
    ELSE LET withFirst == Combinations(Tail(l), k - 1)
         IN  [i \in 1..Len(withFirst) |-> <<l[1]>> \o withFirst[i]]
             \o Combinations(Tail(l), k)

(***************************************************************************)
(* MemoryPage                                                              *)
(***************************************************************************)
STAR == 42
HASH == 35

\* MemoryPage.__init__: the title is the first line without the trailing
\* whitespace, the leading hash symbols and the leading whitespace
TitleOfLine(line) == LStrip(LStrip(RStrip(line, Whitespace), {HASH}), Whitespace)

\* MemoryPage.extract_concepts_from_title
RECURSIVE ConceptsOfWords(_)
ConceptsOfWords(words) ==
    IF words = <<>> THEN <<>>
    ELSE LET word == words[1]
         IN  (IF word[1] = STAR /\ word[Len(word)] = STAR
              THEN << RemoveChar(word, STAR) >> ELSE <<>>)
             \o ConceptsOfWords(Tail(words))

extract_concepts_from_title(title) == ConceptsOfWords(Split(title))

(***************************************************************************)
(* MemoryConcept                                                           *)
(***************************************************************************)
\* MemoryConcept.hash_concepts
hash_concepts(concepts) ==
    IF Len(concepts) = 1 THEN concepts[1]
    ELSE Join(SortStrings([i \in 1..Len(concepts) |-> Capitalize(concepts[i])]))

\* MemoryConcept.__init__
MemoryConcept(concepts) ==
    [id |-> hash_concepts(concepts), concepts |-> concepts,
     subconcepts |-> <<>>, pages |-> <<>>, is_single |-> (Len(concepts) = 1)]

\* MemoryConcept.diff_concepts: the elements of the difference of the sets
diff_concepts(self, other) == SetOf(self.concepts) \ SetOf(other.concepts)

\* MemoryConcept.add_page
add_page(self, page) ==
    IF \E i \in 1..Len(self.pages) : self.pages[i] = page THEN self
    ELSE [self EXCEPT !.pages = Append(@, page)]

\* an append without the test of membership
append_subconcept(self, id) == [self EXCEPT !.subconcepts = Append(@, id)]

\* MemoryConcept.add_subconcept; a node is referred to by its id
add_subconcept(self, id) ==
    IF \E i \in 1..Len(self.subconcepts) : self.subconcepts[i] = id THEN self
    ELSE [self EXCEPT !.subconcepts = Append(@, id)]

(***************************************************************************)
(* The memory directory                                                    *)
(***************************************************************************)
\* the memory files that may exist, named <guid>.md
FileNames == {"f1", "f2", "f3", "f4", "f5", "f6", "f7", "f8", "f9", "f10"}

\* first line of each memory file
FirstLine(f) ==
    CASE f = "f1" -> <<35,32, 42,65,42, 32, 120, 10>>                         \* # *A* x
      [] f = "f2" -> <<35,32, 42,65,42, 32, 42,66,42, 32, 121, 10>>           \* # *A* *B* y
      [] f = "f3" -> <<35,32, 42,65,42, 32, 42,66,42, 32, 42,67,42, 32, 73,116,101,109, 10>>
                                                                              \* # *A* *B* *C* Item
      [] f = "f4" -> <<35,32, 42,98,42, 32, 42,97,42, 32, 122, 10>>           \* # *b* *a* z
      [] f = "f5" -> <<35,32, 112,108,97,105,110, 10>>                        \* # plain
      [] f = "f6" -> <<35,32, 42,65,42, 32, 42,65,42, 32, 119, 10>>           \* # *A* *A* w
      [] f = "f7" -> <<35,32, 42,97,42, 32, 113, 10>>                         \* # *a* q
      [] f = "f8" -> <<35,32, 42,65,42, 32, 120, 10>>                         \* # *A* x
      [] f = "f9" -> <<35,32, 42,46,46,42, 32, 120, 10>>                      \* # *..* x
      [] f = "f10" -> <<35,32, 42,42, 32, 42,97,42, 32, 42,98,42, 32, 116, 10>>
                                                                              \* # ** *a* *b* t

\* name of the symlink directory, itself an entry of the memory directory
SYMLINK_DIRECTORY == "symlink"

\* name of the directory of the concept markdown files, an entry as well
WEB_DIRECTORY == "web"

\* the link create_symlinks makes in the memory directory itself for the
\* page of f9, whose concept directory is symlink/..
STRAY_LINK == ".. x.md"

\* filename.endswith(".md") and len(filename) of a directory entry
EndsWithMd(entry) == entry \in FileNames \cup {STRAY_LINK}
NameLen(entry) ==
    IF entry \in FileNames THEN 39
    ELSE IF entry \in {SYMLINK_DIRECTORY, STRAY_LINK} THEN 7 ELSE 3

\* MemoryPage.title and MemoryPage.concepts of the page read from file f
PageTitle(f) == TitleOfLine(FirstLine(f))
PageConcepts(f) == extract_concepts_from_title(PageTitle(f))

(***************************************************************************)
(* State                                                                   *)
(***************************************************************************)
VARIABLES
    files,       \* the memory files in the memory directory
    fs,          \* the tree of the symlink directory: path -> entry
    pc,          \* position of the command: idle, load, link, concepts, cleanup, done, aborted
    err,         \* the exception that aborted the command, or "none"
    todo,        \* os.listdir entries load_memory_files has not visited yet
    concepts,    \* MemoryThreads.concepts, in insertion order
    lk,          \* index of the next concept MemoryThreads.__init__ recurses
    stack,       \* the active calls of recurse_concepts
    queue,       \* ids of concept_values create_symlinks has not processed yet
    old_files,   \* create_symlinks' old_files
    writes,      \* the filesystem writes of the current run
    fs0,         \* the symlink tree when the current run started
    unchanged,   \* the current run follows a completed run with no edit between
    runs,        \* number of runs started
    edits,       \* number of edits of the memory directory since the last run
    cmd,         \* the command of the current run: symlink or web
    web,         \* the files of the web directory: name -> content
    hin,         \* the two tag lists given to hash_concepts
    hout,        \* the two identities hash_concepts returned for them
    shape0,      \* the lattice the previous run built, when it loaded the same corpus
    threads,        \* link-memories-single-line-web.py: MemoryThreads.threads
    memory_pages,   \* link-memories-single-line-web.py: MemoryThreads.memory_pages
    forward_links,  \* link-memories-single-line-web.py: title -> page
    reverse_links,  \* link-memories-single-line-web.py: page id -> page
    dirs            \* link-memories-single-line-web.py: the directories created

vars == <<files, fs, pc, err, todo, concepts, lk, stack, queue, old_files,
          writes, fs0, unchanged, runs, edits, cmd, web, hin, hout, shape0,
          threads, memory_pages, forward_links, reverse_links, dirs>>

\* the variables of the command
cvars == <<files, fs, pc, err, todo, concepts, lk, stack, queue, old_files,
           writes, fs0, unchanged, runs, edits, cmd, web, shape0>>

\* the variables of the calls of hash_concepts
hvars == <<hin, hout>>

\* the variables of link-memories-single-line-web.py
tvars == <<threads, memory_pages, forward_links, reverse_links, dirs>>

\* number of edits of the memory directory between two runs
MaxEdits == 1

(***************************************************************************)
(* The concept dictionary                                                  *)
(***************************************************************************)
\* concept_hash in self.concepts
HasConcept(cs, id) == \E i \in 1..Len(cs) : cs[i].id = id

IndexOf(cs, id) == CHOOSE i \in 1..Len(cs) : cs[i].id = id

\* self.concepts[concept_hash]
Node(cs, id) == cs[IndexOf(cs, id)]

\* MemoryThreads.get_or_create_concept followed by add_page, as
\* load_memory_files calls them
get_or_create_concept(cs, tags) ==
    IF HasConcept(cs, hash_concepts(tags)) THEN cs
    ELSE Append(cs, MemoryConcept(tags))

LoadPage(cs, f) ==
    LET cs1 == get_or_create_concept(cs, PageConcepts(f))
        i   == IndexOf(cs1, hash_concepts(PageConcepts(f)))
    IN  [cs1 EXCEPT ![i] = add_page(@, f)]

(***************************************************************************)
(* The filesystem below the symlink directory                              *)
(*                                                                         *)
(* fs maps each existing path (a sequence of names, <<>> being the symlink *)
(* directory itself) to its entry.  A link records its relative target:    *)
(* up levels above the directory of the link, then either the directory    *)
(* dir or the memory file named file.                                      *)
(***************************************************************************)
Root == <<>>

\* the name of the parent directory
DOTDOT == <<46, 46>>
DirEntry == [kind |-> "dir", up |-> 0, dir |-> <<>>, file |-> ""]
\* f"../{subconcept.id}"
DirLink(id) == [kind |-> "link", up |-> 1, dir |-> id, file |-> ""]
\* os.path.relpath(page.filepath, start=concept_directory): one level up
\* for each directory between the concept directory and the memory directory
FileLink(concept_directory, f) ==
    [kind |-> "link",
     up |-> Cardinality({i \in 1..Len(concept_directory) : concept_directory[i] # DOTDOT}) + 1
            - Cardinality({i \in 1..Len(concept_directory) : concept_directory[i] = DOTDOT}),
     dir |-> <<>>, file |-> f]

Parent(p) == SubSeq(p, 1, Len(p) - 1)

\* os.path.join(directory, name) for a name without separator
PathJoin(directory, name) == IF name = <<>> THEN directory ELSE Append(directory, name)

\* the path the system resolves p to: a name .. leaves the directory reached
\* so far, and from the symlink directory it leads to the memory directory,
\* written <<DOTDOT>>
RECURSIVE normpath(_)
normpath(p) ==
    IF p = <<>> THEN <<>>
    ELSE LET d == normpath(Parent(p))
             name == p[Len(p)]
         IN  IF name # DOTDOT THEN Append(d, name)
             ELSE IF d # <<>> /\ d[Len(d)] # DOTDOT THEN Parent(d)
             ELSE Append(d, name)

\* the resolved path p is not below the symlink directory
Outside(p) == p # <<>> /\ p[1] = DOTDOT

\* the memory directory
MemoryDirectory == <<DOTDOT>>

Exists(tree, p) == p \in DOMAIN tree

\* os.path.islink
islink(tree, p) == Exists(tree, p) /\ tree[p].kind = "link"

\* the path inside the symlink directory a link to a directory resolves to
LinkTarget(tree, p) ==
    PathJoin(SubSeq(p, 1, Len(p) - 1 - tree[p].up), tree[p].dir)

\* os.path.isdir, which follows links
isdir(tree, p) ==
    \/ p = MemoryDirectory
    \/ /\ Exists(tree, p)
       /\ \/ tree[p].kind = "dir"
          \/ /\ tree[p].kind = "link"
             /\ tree[p].file = ""
             /\ Len(p) - 1 >= tree[p].up
             /\ Exists(tree, LinkTarget(tree, p))
             /\ tree[LinkTarget(tree, p)].kind = "dir"

\* os.listdir
listdir(tree, d) == {q \in DOMAIN tree : Len(q) = Len(d) + 1 /\ Parent(q) = d}

\* tree with path p bound to entry e
Bind(tree, p, e) == [q \in DOMAIN tree \cup {p} |-> IF q = p THEN e ELSE tree[q]]

\* tree without path p
Unbind(tree, p) == [q \in DOMAIN tree \ {p} |-> tree[q]]

\* search_files: every entry below the directory; os.walk does not descend
\* into links
search_files(tree) == {p \in DOMAIN tree : p # Root /\ ~Outside(p)}

\* the entries of the memory directory that are neither memory files nor
\* the symlink or web directory
stray_entries(tree) == IF \E p \in DOMAIN tree : Outside(p) THEN {STRAY_LINK} ELSE {}

\* a write of the filesystem
Write(op, p) == [op |-> op, path |-> p]

\* The commands thread a state st = [fs, writes, old, err] through their
\* calls; a call made after an exception was raised does nothing.

\* create_directory
create_directory(st, directory) ==
    LET dir == normpath(directory)
    IN  IF st.err # "none" \/ isdir(st.fs, dir) THEN st
        ELSE IF Exists(st.fs, dir) THEN [st EXCEPT !.err = "FileExistsError"]
        ELSE IF dir # Root /\ ~isdir(st.fs, Parent(dir))
             THEN [st EXCEPT !.err = "FileNotFoundError"]
        ELSE [st EXCEPT !.fs = Bind(@, dir, DirEntry),
                        !.writes = @ \cup {Write("mkdir", dir)}]

\* create_symlink
create_symlink(st, path, target) ==
    LET symlink == normpath(path)
    IN  IF st.err # "none" \/ islink(st.fs, symlink) THEN st
        ELSE IF Exists(st.fs, symlink) THEN [st EXCEPT !.err = "FileExistsError"]
        ELSE IF ~isdir(st.fs, Parent(symlink)) THEN [st EXCEPT !.err = "FileNotFoundError"]
        ELSE [st EXCEPT !.fs = Bind(@, symlink, target),
                        !.writes = @ \cup {Write("symlink", symlink)}]

\* with suppress(ValueError): old_files.remove(path)
remove_old(st, p) == IF st.err # "none" THEN st ELSE [st EXCEPT !.old = @ \ {p}]

(***************************************************************************)
(* MemoryThreads.__init__: loading and linking                             *)
(***************************************************************************)
\* a call of recurse_concepts(main_memory_concept): the node, its depth and
\* the combinations its loop has not visited yet
Frame(node) ==
    [id     |-> node.id,
     depth  |-> Len(node.concepts) - 1,
     combos |-> IF Len(node.concepts) - 1 > 0
                THEN Combinations(node.concepts, Len(node.concepts) - 1)
                ELSE <<>>]

\* the calls that have finished their loop return
RECURSIVE Unwind(_)
Unwind(stk) ==
    IF stk # <<>> /\ stk[Len(stk)].combos = <<>>
    THEN Unwind(SubSeq(stk, 1, Len(stk) - 1))
    ELSE stk

\* the nodes of the lattice
Nodes == SetOf(concepts)

\* __init__ has returned: every page is loaded and every concept recursed
LatticeBuilt ==
    \/ pc \in {"concepts", "cleanup", "web", "done"}
    \/ pc = "aborted" /\ err # "RecursionError"

\* the lattice as a graph: the identity and tag set of each node, and the
\* edges from a node to its subconcepts
Shape ==
    [known |-> FALSE,
     nodes |-> { [id |-> n.id, tags |-> SetOf(n.concepts)] : n \in Nodes },
     edges |-> UNION { { <<n.id, sid>> : sid \in SetOf(n.subconcepts) } : n \in Nodes }]

\* no lattice of the same corpus is known
NoShape == [known |-> FALSE, nodes |-> {}, edges |-> {}]

Init ==
    /\ files \in {c \in SUBSET FileNames : Cardinality(c) <= MaxPages}
    /\ fs = <<>>
    /\ pc = "idle"
    /\ err = "none"
    /\ todo = {}
    /\ concepts = <<>>
    /\ lk = 1
    /\ stack = <<>>
    /\ queue = <<>>
    /\ old_files = {}
    /\ writes = {}
    /\ fs0 = <<>>
    /\ unchanged = FALSE
    /\ runs = 0
    /\ edits = 0
    /\ cmd = "symlink"
    /\ web = <<>>
    /\ hin = <<>>
    /\ hout = <<>>
    /\ shape0 = NoShape
    /\ threads = <<>>
    /\ memory_pages = <<>>
    /\ forward_links = <<>>
    /\ reverse_links = <<>>
    /\ dirs = {}

\* the user adds a memory file between two runs
AddFile(f) ==
    /\ pc \in {"done", "aborted"}
    /\ runs < MaxRuns
    /\ edits < MaxEdits
    /\ f \notin files
    /\ Cardinality(files) < MaxPages
    /\ files' = files \cup {f}
    /\ edits' = edits + 1
    /\ UNCHANGED <<fs, pc, err, todo, concepts, lk, stack, queue, old_files,
                   writes, fs0, unchanged, runs>>
    /\ UNCHANGED <<cmd, web>>
    /\ UNCHANGED <<hvars, tvars, shape0>>

\* the user removes a memory file between two runs
RemoveFile(f) ==
    /\ pc \in {"done", "aborted"}
    /\ runs < MaxRuns
    /\ edits < MaxEdits
    /\ f \in files
    /\ files' = files \ {f}
    /\ edits' = edits + 1
    /\ UNCHANGED <<fs, pc, err, todo, concepts, lk, stack, queue, old_files,
                   writes, fs0, unchanged, runs>>
    /\ UNCHANGED <<cmd, web>>
    /\ UNCHANGED <<hvars, tvars, shape0>>

\* os.listdir(directory): the memory files, the symlink and web directories
\* once created, and the stray entries
memory_listdir == files \cup (IF Exists(fs, Root) THEN {SYMLINK_DIRECTORY} ELSE {})
                        \cup (IF web # <<>> THEN {WEB_DIRECTORY} ELSE {})
                        \cup stray_entries(fs)

\* the two tests of the loop of load_memory_files: an entry that fails one
\* is skipped by continue
IsMemoryFile(filename) == EndsWithMd(filename) /\ NameLen(filename) = 39

\* app_symlink or app_web starts: MemoryThreads() lists the memory directory;
\* todo keeps the entries the loop of load_memory_files does not skip
StartRun(command) ==
    /\ pc \in {"idle", "done", "aborted"}
    /\ runs < MaxRuns
    /\ runs' = runs + 1
    /\ cmd' = command
    /\ unchanged' = (pc = "done" /\ edits = 0 /\ cmd = "symlink" /\ command = "symlink")
    /\ edits' = 0
    /\ todo' = {filename \in memory_listdir : IsMemoryFile(filename)}
    /\ concepts' = <<>>
    /\ lk' = 1
    /\ stack' = <<>>
    /\ queue' = <<>>
    /\ old_files' = {}
    /\ writes' = {}
    /\ fs0' = fs
    /\ err' = "none"
    /\ pc' = IF todo' = {} THEN "link" ELSE "load"
    /\ shape0' = IF LatticeBuilt /\ edits = 0 THEN [Shape EXCEPT !.known = TRUE]
                 ELSE NoShape
    /\ UNCHANGED <<files, fs, web>>
    /\ UNCHANGED <<hvars, tvars>>

\* one iteration of the loop of load_memory_files that loads a page, in the
\* order of os.listdir
LoadFile(filename) ==
    /\ pc = "load"
    /\ filename \in todo
    /\ todo' = todo \ {filename}
    /\ concepts' = LoadPage(concepts, filename)
    /\ pc' = IF todo' = {} THEN "link" ELSE "load"
    /\ UNCHANGED <<files, fs, err, lk, stack, queue, old_files, writes, fs0,
                   unchanged, runs, edits>>
    /\ UNCHANGED <<cmd, web>>
    /\ UNCHANGED <<hvars, tvars, shape0>>

\* one iteration of the loop of __init__: recurse_concepts(memory_concept)
LinkNext ==
    /\ pc = "link"
    /\ stack = <<>>
    /\ lk <= Len(concepts)
    /\ stack' = Unwind(<<Frame(concepts[lk])>>)
    /\ lk' = lk + 1
    /\ UNCHANGED <<files, fs, pc, err, todo, concepts, queue, old_files, writes,
                   fs0, unchanged, runs, edits>>
    /\ UNCHANGED <<cmd, web>>
    /\ UNCHANGED <<hvars, tvars, shape0>>

\* one iteration of the loop of recurse_concepts, in the innermost call
RecurseStep ==
    /\ pc = "link"
    /\ stack # <<>>
    /\ LET top   == stack[Len(stack)]
           combo == Head(top.combos)
           rest  == [stack EXCEPT ![Len(stack)].combos = Tail(@)]
           hash  == hash_concepts(combo)
       IN  IF ~HasConcept(concepts, hash)
           THEN \* get_concept returned None
                /\ stack' = Unwind(rest)
                /\ UNCHANGED <<concepts, pc, err>>
           ELSE LET i == IndexOf(concepts, hash)
                IN  /\ concepts' = [concepts EXCEPT ![i] = add_subconcept(@, top.id)]
                    /\ IF top.depth > 1
                       THEN IF Len(stack) >= MaxStack
                            THEN /\ pc' = "aborted"
                                 /\ err' = "RecursionError"
                                 /\ stack' = <<>>
                            ELSE /\ stack' = Unwind(Append(rest, Frame(concepts[i])))
                                 /\ UNCHANGED <<pc, err>>
                       ELSE /\ stack' = Unwind(rest)
                            /\ UNCHANGED <<pc, err>>
    /\ UNCHANGED <<files, fs, todo, lk, queue, old_files, writes, fs0,
                   unchanged, runs, edits>>
    /\ UNCHANGED <<cmd, web>>
    /\ UNCHANGED <<hvars, tvars, shape0>>

(***************************************************************************)
(* MemoryThreads.create_symlinks                                           *)
(***************************************************************************)
DotMd == <<46, 109, 100>>

\* name of the link of a page: page.title.replace('*', '') followed by .md
PageLinkName(f) == RemoveChar(PageTitle(f), STAR) \o DotMd

\* concept_values.sort(key = lambda i: len(i.concepts)): a stable sort
RECURSIVE InsertByLen(_, _)
InsertByLen(x, l) ==
    IF l = <<>> THEN <<x>>
    ELSE IF Len(x.concepts) < Len(l[1].concepts) THEN <<x>> \o l
    ELSE <<l[1]>> \o InsertByLen(x, Tail(l))

RECURSIVE SortByLen(_)
SortByLen(l) ==
    IF l = <<>> THEN <<>>
    ELSE InsertByLen(l[Len(l)], SortByLen(SubSeq(l, 1, Len(l) - 1)))

\* the position of the command after a step of create_symlinks
Phase(q, old) == IF q # <<>> THEN "concepts" ELSE IF old # {} THEN "cleanup" ELSE "done"

\* create_symlinks up to its loop: the symlink directory is created, the
\* existing entries are listed and the concepts are sorted
SymlinkSetup ==
    /\ pc = "link"
    /\ cmd = "symlink"
    /\ stack = <<>>
    /\ lk > Len(concepts)
    /\ LET st == create_directory([fs |-> fs, writes |-> writes, old |-> {}, err |-> "none"],
                                  Root)
           cv == SortByLen(concepts)
       IN  /\ fs' = st.fs
           /\ writes' = st.writes
           /\ old_files' = search_files(st.fs)
           /\ queue' = [i \in 1..Len(cv) |-> cv[i].id]
           /\ pc' = Phase(queue', old_files')
    /\ UNCHANGED <<files, err, todo, concepts, lk, stack, fs0, unchanged, runs, edits>>
    /\ UNCHANGED <<cmd, web>>
    /\ UNCHANGED <<hvars, tvars, shape0>>

\* the value no tag can have, for the label of an empty difference
NoLabel == << -1 >>

\* diff[0] of each subconcept of the node: list(set) enumerates the
\* difference in an order that depends on the hash seed of the process
RECURSIVE LabelChoices(_, _, _)
LabelChoices(cs, node, i) ==
    IF i > Len(node.subconcepts) THEN { <<>> }
    ELSE LET diff == diff_concepts(Node(cs, node.subconcepts[i]), node)
         IN  { <<d>> \o r : d \in (IF diff = {} THEN {NoLabel} ELSE diff),
                            r \in LabelChoices(cs, node, i + 1) }

\* the loop over memory_concept.subconcepts, from the i-th subconcept on
RECURSIVE LinkSubconcepts(_, _, _, _, _, _)
LinkSubconcepts(st, cs, node, concept_directory, labels, i) ==
    IF i > Len(node.subconcepts) \/ st.err # "none" THEN st
    ELSE LET subconcept == Node(cs, node.subconcepts[i])
             diff == diff_concepts(subconcept, node)
             subconcept_path == PathJoin(Root, subconcept.id)
             st1 == IF diff = {} THEN [st EXCEPT !.err = "IndexError"]
                    ELSE create_symlink(create_directory(st, subconcept_path),
                                        PathJoin(concept_directory, labels[i]),
                                        DirLink(subconcept.id))
         IN  LinkSubconcepts(st1, cs, node, concept_directory, labels, i + 1)

\* the loop over memory_concept.pages, from the i-th page on
RECURSIVE LinkPages(_, _, _, _)
LinkPages(st, node, concept_directory, i) ==
    IF i > Len(node.pages) \/ st.err # "none" THEN st
    ELSE LET page == node.pages[i]
             concept_symlink_path == PathJoin(concept_directory, PageLinkName(page))
             st1 == create_symlink(st, concept_symlink_path,
                                   FileLink(concept_directory, page))
         IN  LinkPages(remove_old(st1, concept_symlink_path), node, concept_directory, i + 1)

\* the body of the loop over concept_values for one concept
ProcessConcept(st, cs, node, labels) ==
    LET concept_directory == PathJoin(Root, node.id)
        st1 == remove_old(create_directory(st, concept_directory), concept_directory)
        st2 == LinkSubconcepts(st1, cs, node, concept_directory, labels, 1)
    IN  LinkPages(st2, node, concept_directory, 1)

\* one iteration of the loop over concept_values
SymlinkConcept ==
    /\ pc = "concepts"
    /\ LET node == Node(concepts, Head(queue))
       IN  \E labels \in LabelChoices(concepts, node, 1) :
              LET st == ProcessConcept([fs |-> fs, writes |-> writes,
                                        old |-> old_files, err |-> "none"],
                                       concepts, node, labels)
              IN  /\ fs' = st.fs
                  /\ writes' = st.writes
                  /\ old_files' = st.old
                  /\ err' = st.err
                  /\ IF st.err # "none"
                     THEN pc' = "aborted" /\ queue' = queue
                     ELSE queue' = Tail(queue) /\ pc' = Phase(queue', old_files')
    /\ UNCHANGED <<files, todo, concepts, lk, stack, fs0, unchanged, runs, edits>>
    /\ UNCHANGED <<cmd, web>>
    /\ UNCHANGED <<hvars, tvars, shape0>>

\* len(filename) of a path below the symlink directory, up to a constant
RECURSIVE PathLen(_)
PathLen(p) == IF p = <<>> THEN 0 ELSE 1 + Len(p[Len(p)]) + PathLen(Parent(p))

\* p precedes q in the list search_files returned: os.walk lists a directory
\* before its subdirectories, and in one directory the directories (links to
\* directories included) before the other entries; the rest of the order is
\* that of os.listdir, which is arbitrary
WalkedBefore(p, q) ==
    \/ Len(p) < Len(q)
    \/ /\ Parent(p) = Parent(q)
       /\ isdir(fs0, p)
       /\ ~isdir(fs0, q)

\* the order of a sort by length without reverse=True: p is the next of the
\* entries left when none is shorter
NextOldFileShortestFirst(p) ==
    /\ p \in old_files
    /\ \A q \in old_files :
          /\ PathLen(q) >= PathLen(p)
          /\ PathLen(q) = PathLen(p) => ~WalkedBefore(q, p)

\* old_files.sort(key=lambda i: len(i), reverse=True) is stable: p is the
\* next of the entries left when none is longer and none of its length
\* precedes it
NextOldFile(p) ==
    /\ p \in old_files
    /\ \A q \in old_files :
          /\ PathLen(q) <= PathLen(p)
          /\ PathLen(q) = PathLen(p) => ~WalkedBefore(q, p)

\* one iteration of the cleanup loop; shutil is not imported by the module
\* (lines 1-8), so evaluating shutil.rmtree raises NameError
CleanupStep ==
    /\ pc = "cleanup"
    /\ \E filename \in old_files :
          /\ NextOldFile(filename)
          /\ old_files' = old_files \ {filename}
          /\ IF islink(fs, filename)
             THEN /\ fs' = Unbind(fs, filename)
                  /\ writes' = writes \cup {Write("remove", filename)}
                  /\ err' = err
                  /\ pc' = Phase(<<>>, old_files')
             ELSE IF isdir(fs, filename) /\ listdir(fs, filename) = {}
             THEN /\ err' = "NameError"
                  /\ pc' = "aborted"
                  /\ UNCHANGED <<fs, writes>>
             ELSE /\ pc' = Phase(<<>>, old_files')
                  /\ UNCHANGED <<fs, writes, err>>
    /\ UNCHANGED <<files, todo, concepts, lk, stack, queue, fs0, unchanged, runs, edits>>
    /\ UNCHANGED <<cmd, web>>
    /\ UNCHANGED <<hvars, tvars, shape0>>

(***************************************************************************)
(* MemoryThreads.write_web_markdown_files                                  *)
(*                                                                         *)
(* web maps the name of each file of the web directory to its content: the *)
(* heading, the lines of the subconcepts (label and linked concept), the   *)
(* lines of the pages (title and linked file) and, for README.md, the      *)
(* lines of the single concepts.                                           *)
(***************************************************************************)
ReadmeName == <<82, 69, 65, 68, 77, 69>> \o DotMd

\* a file opened with mode 'w' and its heading written
NewFile(heading) == [heading |-> heading, subconcepts |-> <<>>, pages |-> <<>>, singles |-> <<>>]

\* ' '.join(l)
RECURSIVE JoinSpace(_)
JoinSpace(l) ==
    IF l = <<>> THEN <<>>
    ELSE IF Len(l) = 1 THEN l[1]
    ELSE l[1] \o <<32>> \o JoinSpace(Tail(l))

\* get_concept_web_path, below the web directory
get_concept_web_path(node) == node.id \o DotMd

\* write_web_markdown_files up to its loop: the web directory is created and
\* README.md is opened for writing
WebSetup ==
    /\ pc = "link"
    /\ cmd = "web"
    /\ stack = <<>>
    /\ lk > Len(concepts)
    /\ web' = Bind(web, ReadmeName, NewFile(<<>>))
    /\ queue' = [i \in 1..Len(concepts) |-> concepts[i].id]
    /\ pc' = IF queue' = <<>> THEN "done" ELSE "web"
    /\ UNCHANGED <<files, fs, err, todo, concepts, lk, stack, old_files, writes,
                   fs0, unchanged, runs, edits, cmd>>
    /\ UNCHANGED <<hvars, tvars, shape0>>

\* the lines of the subconcepts of the node, up to the first empty difference
RECURSIVE SubconceptLines(_, _, _, _)
SubconceptLines(cs, node, labels, i) ==
    IF i > Len(node.subconcepts) THEN <<>>
    ELSE LET subconcept == Node(cs, node.subconcepts[i])
         IN  IF diff_concepts(subconcept, node) = {} THEN <<>>
             ELSE << [label |-> labels[i], path |-> get_concept_web_path(subconcept)] >>
                  \o SubconceptLines(cs, node, labels, i + 1)

\* diff[0] raises IndexError for some subconcept of the node
HasEmptyDiff(cs, node) ==
    \E i \in 1..Len(node.subconcepts) :
        diff_concepts(Node(cs, node.subconcepts[i]), node) = {}

\* the lines of the pages of the node
PageLines(node) == [i \in 1..Len(node.pages) |->
                        [title |-> PageTitle(node.pages[i]), path |-> node.pages[i]]]

\* one iteration of the loop over self.concepts.items()
WebConcept ==
    /\ pc = "web"
    /\ LET node == Node(concepts, Head(queue))
           readme == IF node.is_single
                     THEN [web[ReadmeName] EXCEPT !.singles = Append(@, node.id)]
                     ELSE web[ReadmeName]
           web1 == Bind(web, ReadmeName, readme)
           file == NewFile(JoinSpace(node.concepts))
       IN  \E labels \in LabelChoices(concepts, node, 1) :
              LET lines == SubconceptLines(concepts, node, labels, 1)
              IN  IF HasEmptyDiff(concepts, node)
                  THEN /\ web' = Bind(web1, get_concept_web_path(node),
                                      [file EXCEPT !.subconcepts = lines])
                       /\ err' = "IndexError"
                       /\ pc' = "aborted"
                       /\ queue' = queue
                  ELSE /\ web' = Bind(web1, get_concept_web_path(node),
                                      [file EXCEPT !.subconcepts = lines,
                                                   !.pages = PageLines(node)])
                       /\ err' = err
                       /\ queue' = Tail(queue)
                       /\ pc' = IF queue' = <<>> THEN "done" ELSE "web"
    /\ UNCHANGED <<files, fs, todo, concepts, lk, stack, old_files, writes,
                   fs0, unchanged, runs, edits, cmd>>
    /\ UNCHANGED <<hvars, tvars, shape0>>

Next ==
    \/ \E f \in FileNames : AddFile(f)
    \/ \E f \in FileNames : RemoveFile(f)
    \/ \E command \in {"symlink", "web"} : StartRun(command)
    \/ \E filename \in FileNames : LoadFile(filename)
    \/ LinkNext
    \/ RecurseStep
    \/ SymlinkSetup
    \/ SymlinkConcept
    \/ CleanupStep
    \/ WebSetup
    \/ WebConcept

Spec == Init /\ [][Next]_vars

(***************************************************************************)
(* Parts of the program                                                    *)
(***************************************************************************)
\* MemoryThreads(): the pages are loaded and the concepts linked, whatever
\* the command does next
NextLattice ==
    \/ \E command \in {"symlink", "web"} : StartRun(command)
    \/ \E filename \in FileNames : LoadFile(filename)
    \/ LinkNext
    \/ RecurseStep

SpecLattice == Init /\ [][NextLattice]_vars

\* runs of hdm symlink, between which the user removes memory files
NextCleanup ==
    \/ \E f \in FileNames : RemoveFile(f)
    \/ StartRun("symlink")
    \/ \E filename \in FileNames : LoadFile(filename)
    \/ LinkNext
    \/ RecurseStep
    \/ SymlinkSetup
    \/ SymlinkConcept
    \/ CleanupStep

SpecCleanup == Init /\ [][NextCleanup]_vars

(***************************************************************************)
(* link-memories-single-line-web.py: the older builder                     *)
(*                                                                         *)
(* threads holds the MemoryThread objects in insertion order; a thread     *)
(* refers to its child threads by their ids.                               *)
(***************************************************************************)
THREAD_DIR == "threads"
MULTI_THREAD_DIR == ".threads"

\* '|'.join(l)
RECURSIVE JoinBar(_)
JoinBar(l) ==
    IF l = <<>> THEN <<>>
    ELSE IF Len(l) = 1 THEN l[1]
    ELSE l[1] \o <<124>> \o JoinBar(Tail(l))

\* hashlib.sha256(key).hexdigest(), taken to be free of collisions: the key
\* behind the mark 0, which no tag holds
sha256_hexdigest(key) == <<0>> \o key

\* MemoryThread.hash_concepts
thread_hash_concepts(tags) ==
    IF Len(tags) = 1 THEN tags[1]
    ELSE sha256_hexdigest(JoinBar(SortStrings([i \in 1..Len(tags) |-> StrLower(tags[i])])))

\* MemoryThread.__init__
MemoryThread(tags) ==
    [id |-> thread_hash_concepts(tags), concepts |-> tags, threads |-> <<>>,
     pages |-> <<>>, is_single |-> Len(tags) = 1]

\* MemoryThread.add_page
thread_add_page(self, page) ==
    IF \E i \in 1..Len(self.pages) : self.pages[i] = page THEN self
    ELSE [self EXCEPT !.pages = Append(@, page)]

\* MemoryThread.add_thread
add_thread(self, thread) ==
    IF \E i \in 1..Len(self.threads) : self.threads[i] = thread THEN self
    ELSE [self EXCEPT !.threads = Append(@, thread)]

\* MemoryThreads.get_thread: get or create
get_thread(ts, tags) ==
    IF HasConcept(ts, thread_hash_concepts(tags)) THEN ts
    ELSE Append(ts, MemoryThread(tags))

\* child_memory_thread = None
None == << -2 >>

\* the loop of recurse_concepts over the combinations left, each with its
\* recursive call
RECURSIVE thread_recurse_concepts(_, _, _, _, _)
thread_recurse_concepts(ts, memory_page, combinations, depth, child_memory_thread) ==
    IF combinations = <<>> THEN ts
    ELSE LET combination == Head(combinations)
             id  == thread_hash_concepts(combination)
             ts1 == get_thread(ts, combination)
             i   == IndexOf(ts1, id)
             ts2 == [ts1 EXCEPT ![i] = thread_add_page(@, memory_page)]
             ts3 == IF child_memory_thread # None
                    THEN [ts2 EXCEPT ![i] = add_thread(@, child_memory_thread)]
                    ELSE ts2
             ts4 == IF depth > 1
                    THEN thread_recurse_concepts(ts3, memory_page,
                             Combinations(combination, depth - 1), depth - 1, id)
                    ELSE ts3
         IN  thread_recurse_concepts(ts4, memory_page, Tail(combinations), depth,
                                     child_memory_thread)

\* MemoryThreads.__init__ up to the loop of load_memory_files: the two
\* directories are created and the memory directory is listed
ThreadsStart ==
    /\ pc = "idle"
    /\ dirs' = dirs \cup {THREAD_DIR, MULTI_THREAD_DIR}
    /\ memory_pages' = <<>>
    /\ forward_links' = <<>>
    /\ reverse_links' = <<>>
    /\ threads' = <<>>
    /\ todo' = {filename \in files : EndsWithMd(filename)}
    /\ pc' = IF todo' = {} THEN "loaded" ELSE "threads"
    /\ UNCHANGED <<files, fs, err, concepts, lk, stack, queue, old_files, writes,
                   fs0, unchanged, runs, edits, cmd, web, shape0>>
    /\ UNCHANGED hvars

\* one iteration of the loop of load_memory_files, in the order of
\* os.listdir; the message of a duplicate title names forward_links, which
\* is no variable of the function or the module, so building it raises
\* NameError
ThreadsLoadFile(filename) ==
    /\ pc = "threads"
    /\ filename \in todo
    /\ memory_pages' = Append(memory_pages, filename)
    /\ IF PageTitle(filename) \notin DOMAIN forward_links
       THEN /\ forward_links' = Bind(forward_links, PageTitle(filename), filename)
            /\ reverse_links' = Bind(reverse_links, filename, filename)
            /\ threads' = thread_recurse_concepts(threads, filename,
                              Combinations(PageConcepts(filename),
                                           Len(PageConcepts(filename))),
                              Len(PageConcepts(filename)), None)
            /\ todo' = todo \ {filename}
            /\ pc' = IF todo' = {} THEN "loaded" ELSE "threads"
            /\ err' = err
       ELSE /\ err' = "NameError"
            /\ pc' = "aborted"
            /\ UNCHANGED <<forward_links, reverse_links, threads, todo>>
    /\ UNCHANGED <<files, fs, concepts, lk, stack, queue, old_files, writes,
                   fs0, unchanged, runs, edits, cmd, web, shape0, dirs>>
    /\ UNCHANGED hvars

NextThreads ==
    \/ ThreadsStart
    \/ \E filename \in FileNames : ThreadsLoadFile(filename)

SpecThreads == Init /\ [][NextThreads]_vars

(***************************************************************************)
(* hash_concepts as a function of its argument                             *)
(***************************************************************************)
\* longest tag list given to hash_concepts
MaxTags == 2

\* the tags of the lists: A, a, B and AB
HashTags == { <<65>>, <<97>>, <<66>>, <<65, 66>> }

RECURSIVE ListsOfLen(_)
ListsOfLen(n) ==
    IF n = 0 THEN { <<>> }
    ELSE { Append(l, t) : l \in ListsOfLen(n - 1), t \in HashTags }

\* the non-empty tag lists of at most MaxTags tags
TagLists == UNION { ListsOfLen(n) : n \in 1..MaxTags }

InitHash ==
    /\ files = {} /\ fs = <<>> /\ pc = "idle" /\ err = "none" /\ todo = {}
    /\ concepts = <<>> /\ lk = 1 /\ stack = <<>> /\ queue = <<>> /\ old_files = {}
    /\ writes = {} /\ fs0 = <<>> /\ unchanged = FALSE /\ runs = 0 /\ edits = 0
    /\ cmd = "symlink" /\ web = <<>> /\ shape0 = NoShape
    /\ threads = <<>> /\ memory_pages = <<>> /\ forward_links = <<>>
    /\ reverse_links = <<>> /\ dirs = {}
    /\ hin \in TagLists \X TagLists
    /\ hout = <<>>

\* MemoryConcept.hash_concepts is called on the two lists
HashConcepts ==
    /\ hin # <<>>
    /\ hout = <<>>
    /\ hout' = <<hash_concepts(hin[1]), hash_concepts(hin[2])>>
    /\ UNCHANGED <<hin, cvars, tvars>>

NextHash == HashConcepts

SpecHash == InitHash /\ [][NextHash]_vars

(***************************************************************************)
(* Properties                                                              *)
(***************************************************************************)
\* the pages attached to the nodes
LoadedPages == UNION { SetOf(n.pages) : n \in Nodes }

\* the number of edges of the lattice
RECURSIVE SumEdges(_, _)
SumEdges(cs, i) == IF i > Len(cs) THEN 0 ELSE Len(cs[i].subconcepts) + SumEdges(cs, i + 1)

NumEdges == SumEdges(concepts, 1)

\* the paths this run removed
Removed == { w.path : w \in { x \in writes : x.op = "remove" } }

\* the links of the prior tree to a page that is no longer in the corpus
StalePageLinks ==
    { p \in DOMAIN fs0 : fs0[p].kind = "link" /\ fs0[p].file # "" /\ fs0[p].file \notin files }

\* p is, in the given tree, the link of a page attached to a node
IsPageLink(tree, p) ==
    \E n \in Nodes : \E f \in SetOf(n.pages) :
        /\ p = PathJoin(PathJoin(Root, n.id), PageLinkName(f))
        /\ Exists(tree, p)
        /\ tree[p] = FileLink(PathJoin(Root, n.id), f)

\* p is, in the given tree, the link of an edge of the lattice
IsConceptLink(tree, p) ==
    \E n \in Nodes : \E sid \in SetOf(n.subconcepts) :
        \E d \in diff_concepts(Node(concepts, sid), n) :
            /\ p = PathJoin(PathJoin(Root, n.id), d)
            /\ Exists(tree, p)
            /\ tree[p] = DirLink(sid)

\* p is the directory of a node
IsConceptDirectory(tree, p) ==
    \E n \in Nodes : p = PathJoin(Root, n.id) /\ Exists(tree, p) /\ tree[p].kind = "dir"

\* C1: a second run over an unchanged corpus, started from the tree the
\* first run left, performs no filesystem write: it creates no directory,
\* creates no symlink and deletes no link or directory.
C1_SecondRunWritesNothing == unchanged => writes = {}

\* C2: when the prior tree holds a stale link of a removed page together
\* with valid links of the current corpus, a completed run has removed every
\* stale page link and has removed no link that was valid, page link or
\* concept-to-concept link.
C2_RemovesOnlyStaleLinks ==
    (pc = "done" /\ StalePageLinks # {}) =>
        /\ StalePageLinks \subseteq Removed
        /\ \A p \in Removed : ~IsPageLink(fs0, p) /\ ~IsConceptLink(fs0, p)

\* C3: the cleanup never aborts, and after a completed run every entry of
\* the tree belongs to the current graph: it is the directory of a node, the
\* link of an attached page or the link of an edge.
C3_TreeReflectsGraph ==
    /\ ~(pc = "aborted" /\ err = "NameError")
    /\ pc = "done" =>
          \A p \in DOMAIN fs \ {Root} :
              IsConceptDirectory(fs, p) \/ IsPageLink(fs, p) \/ IsConceptLink(fs, p)

\* C4: after lattice construction, for every page with tag set T and every
\* non-empty subset S of T a node with tag set S exists, and for every two
\* subsets S, S2 of T with S2 = S plus one tag, an edge between their
\* nodes exists whose label is that single tag.
C4_LatticeComplete ==
    LatticeBuilt =>
        \A f \in LoadedPages :
            LET T == SetOf(PageConcepts(f))
            IN  /\ \A S \in (SUBSET T) \ {{}} :
                       \E n \in Nodes : SetOf(n.concepts) = S
                /\ \A S \in (SUBSET T) \ {{}} : \A t \in T \ S :
                       \E n \in Nodes : \E sid \in SetOf(n.subconcepts) :
                           /\ SetOf(n.concepts) = S
                           /\ SetOf(Node(concepts, sid).concepts) = S \cup {t}
                           /\ diff_concepts(Node(concepts, sid), n) = {t}

\* C5: the corpus of the single page titled `*A* *B* *C* Item` (file f3)
\* gives exactly 7 nodes and exactly 6 edges.
C5_SevenNodesSixEdges ==
    (LatticeBuilt /\ LoadedPages = {"f3"}) => (Len(concepts) = 7 /\ NumEdges = 6)

\* C6: a page without tags contributes no node, so every node has a
\* non-empty tag list, and such a page is listed by no concept markdown file
\* and is the target of no link of the symlink tree.
C6_UntaggedPageAbsent ==
    /\ \A n \in Nodes : n.concepts # <<>>
    /\ \A name \in DOMAIN web : \A i \in 1..Len(web[name].pages) :
          PageConcepts(web[name].pages[i].path) # <<>>
    /\ \A p \in DOMAIN fs :
          (fs[p].kind = "link" /\ fs[p].file # "") => PageConcepts(fs[p].file) # <<>>

\* the case-folded set of a tag list
FoldedSet(tags) == { StrLower(tags[i]) : i \in 1..Len(tags) }

\* C7: for all non-empty tag lists A and B, hash_concepts(A) equals
\* hash_concepts(B) if and only if the case-folded sets of A and B are equal.
C7_SameIdentityIffSameFoldedSet ==
    hout # <<>> => ((hout[1] = hout[2]) <=> (FoldedSet(hin[1]) = FoldedSet(hin[2])))

\* tags is a permutation of a case variation of the list other
IsVariant(tags, other) ==
    /\ Len(tags) = Len(other)
    /\ \A t \in FoldedSet(tags) \cup FoldedSet(other) :
          Cardinality({i \in 1..Len(tags) : StrLower(tags[i]) = t})
              = Cardinality({i \in 1..Len(other) : StrLower(other[i]) = t})

\* the node a loaded page is attached to
NodeOfPage(f) == CHOOSE n \in Nodes : f \in SetOf(n.pages)

\* C8: two pages whose tag lists are permutations and case variations of
\* each other get the same identity and are attached to the same node.
C8_VariantsShareNode ==
    LatticeBuilt =>
        \A f, g \in LoadedPages :
            IsVariant(PageConcepts(f), PageConcepts(g)) =>
                /\ hash_concepts(PageConcepts(f)) = hash_concepts(PageConcepts(g))
                /\ NodeOfPage(f) = NodeOfPage(g)

\* C9: for every edge stored in the lattice, diff_concepts between its two
\* nodes has exactly one element.
C9_EdgeDiffIsSingleton ==
    \A n \in Nodes : \A sid \in SetOf(n.subconcepts) :
        Cardinality(diff_concepts(Node(concepts, sid), n)) = 1

\* the run has written the concept markdown file of the node
WebWritten(n) ==
    /\ cmd = "web"
    /\ pc \in {"web", "done"}
    /\ n.id \notin SetOf(queue)

\* C10: for an edge whose tag difference is not a singleton neither a link
\* nor an index entry is emitted: this run created no link for it named by
\* an element of the difference, and the concept markdown file it wrote for
\* the node has no line for it.
C10_NoLinkForBadEdge ==
    \A n \in Nodes : \A sid \in SetOf(n.subconcepts) :
        LET diff == diff_concepts(Node(concepts, sid), n)
            subconcept_path == get_concept_web_path(Node(concepts, sid))
        IN  Cardinality(diff) # 1 =>
               /\ \A d \in diff :
                      LET p == PathJoin(PathJoin(Root, n.id), d)
                      IN  ~(/\ Write("symlink", p) \in writes
                            /\ Exists(fs, p)
                            /\ fs[p] = DirLink(sid))
               /\ WebWritten(n) =>
                      \A i \in 1..Len(web[get_concept_web_path(n)].subconcepts) :
                          web[get_concept_web_path(n)].subconcepts[i].path # subconcept_path

\* C13: every directory creation, symlink creation and deletion of
\* create_symlinks targets the symlink directory or a path below it, and no
\* entry is created in the memory directory that holds the source files.
C13_WritesStayBelowRoot ==
    /\ \A w \in writes : ~Outside(w.path)
    /\ \A p \in DOMAIN fs : ~Outside(p)

\* C14: lattice construction terminates: it never exhausts the call stack,
\* and in every chain of active calls of recurse_concepts each call has a
\* strictly smaller combination depth than the call that made it.
C14_RecursionDescends ==
    /\ err # "RecursionError"
    /\ \A i \in 1..(Len(stack) - 1) : stack[i + 1].depth < stack[i].depth

\* C11: the lattice does not depend on the order in which os.listdir
\* enumerates the memory files: two runs over the same corpus build the same
\* node identities with the same tag sets, and the same edges.
C11_OrderIndependent ==
    (LatticeBuilt /\ shape0.known) =>
        /\ Shape.nodes = shape0.nodes
        /\ Shape.edges = shape0.edges

\* C12: a duplicate title does not abort the load: no exception ends
\* load_memory_files, and when it has returned every memory file of the
\* directory, the pages of equal title included, is among the loaded pages.
C12_DuplicateTitleNotFatal ==
    /\ ~(pc = "aborted" /\ err = "NameError")
    /\ pc = "loaded" => SetOf(memory_pages) = files

\* the entry q lies, at any depth, in the directory p
Below(q, p) == Len(q) > Len(p) /\ SubSeq(q, 1, Len(p)) = p

\* C15: create_symlinks deletes nothing before the creation and confirmation
\* work for the whole graph is done, creates nothing once the deletion phase
\* has begun, and in the deletion phase comes to a directory only after every
\* leftover entry the directory contains.
C15_DeletionsLastAndDeepestFirst ==
    [][ /\ (\E p \in DOMAIN fs : p \notin DOMAIN fs') => (pc = "cleanup" /\ queue = <<>>)
        /\ pc = "cleanup" =>
              /\ DOMAIN fs' \subseteq DOMAIN fs
              /\ \A p \in old_files \ old_files' : \A q \in old_files' : ~Below(q, p)
      ]_vars

\* the cleanup has removed a stale link and then come to the stale directory
\* that held it, which it found empty
C15_Witness ==
    /\ pc = "aborted"
    /\ err = "NameError"
    /\ \E p \in Removed :
          /\ Exists(fs, Parent(p))
          /\ Parent(p) \notin old_files
          /\ listdir(fs, Parent(p)) = {}

\* C16: edge creation is idempotent: whatever pairs of nodes recurse_concepts
\* comes back to, no node's subconcepts list holds the same node twice.
C16_NoDuplicateEdges ==
    \A n \in Nodes : \A i, j \in 1..Len(n.subconcepts) :
        i # j => n.subconcepts[i] # n.subconcepts[j]

\* the lattice is built and holds a chain of two edges: the lower edge was
\* added once by the call for the node in the middle and once more by the
\* recursion from the node at the end
C16_Witness ==
    /\ pc = "link"
    /\ stack = <<>>
    /\ lk > Len(concepts)
    /\ \E n, m \in Nodes :
          /\ m.id \in SetOf(n.subconcepts)
          /\ m.subconcepts # <<>>
          /\ m.id # n.id

\* C17: after create_symlinks has completed, every page attached to a node
\* has, in the directory of the node, a link named after its title whose
\* target is the file of that page, also when two pages of the node have the
\* same title or the prior tree held a link of that name to another file.
C17_EveryPageLinked ==
    (pc = "done" /\ cmd = "symlink") =>
        \A n \in Nodes : \A f \in SetOf(n.pages) :
            LET concept_directory == PathJoin(Root, n.id)
                p == normpath(PathJoin(concept_directory, PageLinkName(f)))
            IN  Exists(fs, p) /\ fs[p] = FileLink(concept_directory, f)

====
